---- MODULE Spec2Model ----
(***************************************************************************)
(* Model of the mitt event emitter (src/src/index.ts).                     *)
(*                                                                         *)
(* A registry (a JavaScript Map) maps event-type identifiers to arrays of  *)
(* handlers.  Registries live in a heap (maps) and an emitter holds a      *)
(* reference to one (allOf), because mitt(all) keeps the Map it is given.  *)
(* emit is synchronous but calls back into user code, so one emit call is  *)
(* a frame on a call stack: the frame is advanced by one step per handler  *)
(* invocation, and while a handler runs it may call on/off/emit itself.    *)
(***************************************************************************)
EXTENDS Integers, Sequences, FiniteSets, TLC

\* ---------------------------------------------------------------- bounds
MaxLen == 2         \* most handlers (summed over its arrays) on() may bring a registry to
MaxDepth == 2       \* deepest nesting of emit calls
MaxSeed == 3        \* most handlers in a Map the caller fills before calling mitt(all)

\* ---------------------------------------------------------------- values
WILDCARD == "*"
UserTypes == {"a", "b"}
Types == UserTypes \cup {WILDCARD}
Handlers == {"h1", "h2"}
Payloads == {"v1", "v2"}
NoHandler == "undefined"   \* off(type) called without a handler argument
NoMap == 0                 \* mitt() called without a registry argument

VARIABLES
    maps,    \* heap of Map objects: sequence of registries (type -> handler array)
    allOf,   \* allOf[e]: index in maps of the Map emitter e uses (its `all`)
    given,   \* history: given[e] is the Map mitt was called with to make e, or NoMap
    stack,   \* call stack of emit frames, innermost last
    unsub,   \* the function on() returned that the caller holds, if any
    last,    \* history: the emit call that ended in the step just taken, if one did
    op       \* history: the on/off/unsubscribe call the step just taken made, if any

vars == <<maps, allOf, given, stack, unsub, last, op>>

EmptyMap == [k \in {} |-> <<>>]
NoUnsub == [types |-> <<>>, h |-> NoHandler, em |-> 0, called |-> FALSE]
NoEmit == [outcome |-> "none"]
NoOp == [name |-> "none"]

Emitters == DOMAIN allOf

\* ------------------------------------------------------- array primitives
Min(x, y) == IF x < y THEN x ELSE y

\* Array.prototype.indexOf: zero-based index of the first element identical
\* to h, or -1.
IndexOf(s, h) ==
    IF \E i \in 1..Len(s) : s[i] = h
    THEN (CHOOSE i \in 1..Len(s) : s[i] = h /\ \A j \in 1..(i - 1) : s[j] # h) - 1
    ELSE -1

Max(x, y) == IF x > y THEN x ELSE y

\* Where splice starts: a negative start counts from the end, and the
\* result is kept within 0..length.
SpliceStart(s, start) ==
    IF start < 0 THEN Max(Len(s) + start, 0) ELSE Min(start, Len(s))

\* Faulty variant of SpliceOne: splice(start), which removes all from start on.
SpliceToEnd(s, start) == SubSeq(s, 1, SpliceStart(s, start))

\* Array.prototype.splice(start, 1): at most one element is removed, the
\* one at start.
SpliceOne(s, start) ==
    LET at == SpliceStart(s, start)
    IN  SubSeq(s, 1, at) \o SubSeq(s, at + 2, Len(s))

\* Faulty variant of IndexOfUnsigned: the index as indexOf gives it, -1 included.
IndexOfSigned(s, h) == IndexOf(s, h)

\* handlers.indexOf(handler) >>> 0: the unsigned conversion leaves an index
\* as it is and turns -1 into 4294967295, which is beyond every array the
\* model builds; the result is given already clamped to the array's length.
IndexOfUnsigned(s, h) ==
    IF IndexOf(s, h) < 0 THEN Len(s) ELSE IndexOf(s, h)

\* Array.prototype.slice(): a copy; later changes of the array do not show
\* in it.  The argument is the array's value at the time of the call.
Slice(s) == s

\* ------------------------------------------------------------- the registry
Has(reg, t) == t \in DOMAIN reg

\* Map.prototype.set
MapSet(reg, t, s) == [k \in DOMAIN reg \cup {t} |-> IF k = t THEN s ELSE reg[k]]

\* Faulty variant of _on: the handler is put at the front of the type's array.
_onFront(reg, t, h) ==
    IF Has(reg, t)
    THEN MapSet(reg, t, <<h>> \o reg[t])
    ELSE MapSet(reg, t, <<h>>)

\* _on(type, handler): push onto the type's array, or set a new one-element
\* array when the Map has no entry for the type.
_on(reg, t, h) ==
    IF Has(reg, t)
    THEN MapSet(reg, t, Append(reg[t], h))
    ELSE MapSet(reg, t, <<h>>)

\* Map.prototype.delete
MapDelete(reg, t) == [k \in DOMAIN reg \ {t} |-> reg[k]]

\* Faulty variant of off: off(type) deletes the type's entry.
offDeleting(reg, t, h) ==
    IF Has(reg, t)
    THEN IF h # NoHandler
         THEN MapSet(reg, t, SpliceOne(reg[t], IndexOfUnsigned(reg[t], h)))
         ELSE MapDelete(reg, t)
    ELSE reg

\* Faulty variant of off: an array that off(type, handler) empties is taken
\* out of the Map.
offPruning(reg, t, h) ==
    IF Has(reg, t)
    THEN IF h # NoHandler
         THEN LET s == SpliceOne(reg[t], IndexOfUnsigned(reg[t], h))
              IN  IF s = <<>> THEN MapDelete(reg, t) ELSE MapSet(reg, t, s)
         ELSE MapSet(reg, t, <<>>)
    ELSE reg

\* off(type, handler?)
off(reg, t, h) ==
    IF Has(reg, t)
    THEN IF h # NoHandler
         THEN MapSet(reg, t, SpliceOne(reg[t], IndexOfUnsigned(reg[t], h)))
         ELSE MapSet(reg, t, <<>>)
    ELSE reg

\* types.forEach((type) => _on(type, handler))
RECURSIVE _onEach(_, _, _)
_onEach(reg, ts, h) ==
    IF ts = <<>> THEN reg ELSE _onEach(_on(reg, Head(ts), h), Tail(ts), h)

\* Faulty variant of offEach: only the first type of the array is unsubscribed.
offFirst(reg, ts, h) == IF ts = <<>> THEN reg ELSE off(reg, Head(ts), h)

\* types.forEach((type) => off(type, handler))
RECURSIVE offEach(_, _, _)
offEach(reg, ts, h) ==
    IF ts = <<>> THEN reg ELSE offEach(off(reg, Head(ts), h), Tail(ts), h)

\* The number of handlers a registry holds.
RECURSIVE Total(_, _)
Total(reg, ks) ==
    IF ks = {} THEN 0
    ELSE LET k == CHOOSE x \in ks : TRUE
         IN  Len(reg[k]) + Total(reg, ks \ {k})

\* The registry stays within the model's bound.
Fits(reg) == Total(reg, DOMAIN reg) <= MaxLen

\* Faulty variant of mitt: the emitter works on a copy of the Map it is given.
mittCopying(heap, all) ==
    IF all # NoMap
    THEN [maps |-> Append(heap, heap[all]), all |-> Len(heap) + 1]
    ELSE [maps |-> Append(heap, EmptyMap), all |-> Len(heap) + 1]

\* mitt(all): all = all || new Map().  The result is the heap and the
\* emitter's Map in it.
mitt(heap, all) ==
    IF all # NoMap
    THEN [maps |-> heap, all |-> all]
    ELSE [maps |-> Append(heap, EmptyMap), all |-> Len(heap) + 1]

\* The arrays of types on() is given: none, one type, two types, the same
\* type twice, a type and the wildcard.
TypeLists == {<<>>, <<"a">>, <<"a", "b">>, <<"a", "a">>, <<"b", WILDCARD>>}

\* ------------------------------------------------------------ the call stack
Top == stack[Len(stack)]

\* User code runs, and so may call the emitter: the top-level caller when no
\* emit is in progress, else the handler the innermost emit is running.
Ready == IF stack = <<>> THEN TRUE ELSE Top.running

\* Faulty variant of Snap: the pass walks the registry's own array, not a copy of it.
SnapLive(f) ==
    LET reg == maps[allOf[f.em]]
        k == IF f.phase = "typed" THEN f.type ELSE WILDCARD
    IN  IF k \in DOMAIN reg THEN reg[k] ELSE <<>>

\* The array the frame's current pass walks.
Snap(f) == IF f.phase = "typed" THEN f.tsnap ELSE f.wsnap

\* Faulty variant of Args: wildcard handlers are called like typed ones.
ArgsEvtOnly(f) == <<f.evt>>

\* The arguments a pass gives a handler: handler(evt) in the type-matched
\* pass, handler(type, evt) in the wildcard pass.
Args(f) == IF f.phase = "typed" THEN <<f.evt>> ELSE <<f.type, f.evt>>

\* Faulty variant of Snapshot: the copy is walked from its end.
SnapshotBackwards(reg, t) ==
    IF Has(reg, t) THEN [i \in 1..Len(reg[t]) |-> reg[t][Len(reg[t]) + 1 - i]] ELSE <<>>

\* let handlers = all.get(type); if (handlers) handlers.slice() ...
Snapshot(reg, t) == IF Has(reg, t) THEN Slice(reg[t]) ELSE <<>>

SetTop(f) == [stack EXCEPT ![Len(stack)] = f]

\* Faulty variant of Pop: the return of a nested emit ends the emits around it too.
PopAll == <<>>

\* The stack once its innermost call has returned to its caller.
Pop == SubSeq(stack, 1, Len(stack) - 1)

\* Faulty variant of AfterThrow: emit catches the error and goes on to the next
\* handler.
AfterThrowCaught == SetTop([Top EXCEPT !.running = FALSE, !.idx = @ + 1])

\* The stack once the running handler has thrown: emit has no try/catch, so
\* its frame is left and the error is with the caller of emit.
AfterThrow == Pop

\* History: the array emitter e's registry holds for t right now (empty when
\* it has no entry), read without going through the code's lookup and copy.
Current(e, t) == IF t \in DOMAIN maps[allOf[e]] THEN maps[allOf[e]][t] ELSE <<>>

\* ---------------------------------------------------------------- actions
\* on(type, handler) with a single type: _on, whose result is a function
\* that calls off(type, handler).  The caller keeps the result in its one
\* variable or drops it.
On(e, t, h, keep) ==
    /\ Ready
    /\ LET reg == _on(maps[allOf[e]], t, h)
       IN  /\ Fits(reg)
           /\ maps' = [maps EXCEPT ![allOf[e]] = reg]
    /\ unsub' = IF keep THEN [types |-> <<t>>, h |-> h, em |-> e, called |-> FALSE] ELSE unsub
    /\ last' = NoEmit
    /\ UNCHANGED <<allOf, given, stack>>

\* on(types, handler) with an array of types: _onArray, whose result calls
\* off(type, handler) for each type of the array.
OnArray(e, ts, h, keep) ==
    /\ Ready
    /\ LET reg == _onEach(maps[allOf[e]], ts, h)
       IN  /\ Fits(reg)
           /\ maps' = [maps EXCEPT ![allOf[e]] = reg]
    /\ unsub' = IF keep THEN [types |-> ts, h |-> h, em |-> e, called |-> FALSE] ELSE unsub
    /\ last' = NoEmit
    /\ UNCHANGED <<allOf, given, stack>>

\* off(type, handler) and off(type)
Off(e, t, h) ==
    /\ Ready
    /\ maps' = [maps EXCEPT ![allOf[e]] = off(maps[allOf[e]], t, h)]
    /\ last' = NoEmit
    /\ UNCHANGED <<allOf, given, stack, unsub>>

\* Faulty variant of Unsubscribe: the function remembers that it was called
\* and does nothing when called again.
UnsubscribeOnce ==
    /\ Ready
    /\ unsub # NoUnsub
    /\ maps' = IF unsub.called THEN maps
               ELSE [maps EXCEPT ![allOf[unsub.em]] = offEach(maps[allOf[unsub.em]], unsub.types, unsub.h)]
    /\ unsub' = [unsub EXCEPT !.called = TRUE]
    /\ last' = NoEmit
    /\ UNCHANGED <<allOf, given, stack>>

\* A call of the function on() returned.
Unsubscribe ==
    /\ Ready
    /\ unsub # NoUnsub
    /\ maps' = [maps EXCEPT ![allOf[unsub.em]] = offEach(maps[allOf[unsub.em]], unsub.types, unsub.h)]
    /\ unsub' = [unsub EXCEPT !.called = TRUE]
    /\ last' = NoEmit
    /\ UNCHANGED <<allOf, given, stack>>

\* Faulty variant of Emit: a type the Map has no entry for is given an empty
\* array by the lookup.
EmitCreating(e, t, v) ==
    /\ Ready
    /\ Len(stack) < MaxDepth
    /\ stack' = Append(stack,
           [em |-> e, type |-> t, evt |-> v, phase |-> "typed",
            tsnap |-> Snapshot(maps[allOf[e]], t), wsnap |-> <<>>,
            idx |-> 1, running |-> FALSE,
            calls |-> <<>>, seq0 |-> Current(e, t), wild0 |-> <<>>])
    /\ maps' = [maps EXCEPT ![allOf[e]] = IF Has(@, t) THEN @ ELSE MapSet(@, t, <<>>)]
    /\ last' = NoEmit
    /\ UNCHANGED <<allOf, given, unsub>>

\* emit(type, evt) is entered: the type's array is looked up and copied.
Emit(e, t, v) ==
    /\ Ready
    /\ Len(stack) < MaxDepth
    /\ stack' = Append(stack,
           [em |-> e, type |-> t, evt |-> v, phase |-> "typed",
            tsnap |-> Snapshot(maps[allOf[e]], t), wsnap |-> <<>>,
            idx |-> 1, running |-> FALSE,
            calls |-> <<>>, seq0 |-> Current(e, t), wild0 |-> <<>>])
    /\ last' = NoEmit
    /\ UNCHANGED <<maps, allOf, given, unsub>>

\* The current pass calls its next handler.
Invoke ==
    /\ stack # <<>>
    /\ ~Top.running
    /\ Top.idx <= Len(Snap(Top))
    /\ stack' = SetTop([Top EXCEPT
           !.running = TRUE,
           !.calls = Append(@, [h |-> Snap(Top)[Top.idx], pass |-> Top.phase, args |-> Args(Top)])])
    /\ last' = NoEmit
    /\ UNCHANGED <<maps, allOf, given, unsub>>

\* The running handler returns: the pass goes on to the next element.
HandlerReturn ==
    /\ stack # <<>>
    /\ Top.running
    /\ stack' = SetTop([Top EXCEPT !.running = FALSE, !.idx = @ + 1])
    /\ last' = NoEmit
    /\ UNCHANGED <<maps, allOf, given, unsub>>

\* The running handler throws: emit catches nothing, so the call ends and
\* the error is with whoever called emit.
HandlerThrow ==
    /\ stack # <<>>
    /\ Top.running
    /\ stack' = AfterThrow
    /\ last' = [outcome |-> "threw", frame |-> Top, depth |-> Len(stack), maps |-> maps]
    /\ UNCHANGED <<maps, allOf, given, unsub>>

\* Faulty variant of StartWildcard: the wildcard pass walks the '*' array as
\* it was when emit was called.
StartWildcardStale ==
    /\ stack # <<>>
    /\ ~Top.running
    /\ Top.phase = "typed"
    /\ Top.idx > Len(Top.tsnap)
    /\ stack' = SetTop([Top EXCEPT
           !.phase = "wild",
           !.wsnap = IF op.name = "emit" /\ WILDCARD \in DOMAIN op.before
                     THEN op.before[WILDCARD]
                     ELSE IF op.name = "emit" THEN <<>>
                     ELSE Snapshot(maps[allOf[Top.em]], WILDCARD),
           !.idx = 1,
           !.wild0 = Current(Top.em, WILDCARD)])
    /\ last' = NoEmit
    /\ UNCHANGED <<maps, allOf, given, unsub>>

\* Faulty variant of StartWildcard: an emit of '*' itself has no wildcard pass.
StartWildcardNotOwn ==
    /\ stack # <<>>
    /\ ~Top.running
    /\ Top.phase = "typed"
    /\ Top.idx > Len(Top.tsnap)
    /\ stack' = SetTop([Top EXCEPT
           !.phase = "wild",
           !.wsnap = IF Top.type = WILDCARD THEN <<>>
                     ELSE Snapshot(maps[allOf[Top.em]], WILDCARD),
           !.idx = 1,
           !.wild0 = Current(Top.em, WILDCARD)])
    /\ last' = NoEmit
    /\ UNCHANGED <<maps, allOf, given, unsub>>

\* The type-matched pass is over: handlers = all.get('*') is looked up and
\* copied, and the wildcard pass starts.
StartWildcard ==
    /\ stack # <<>>
    /\ ~Top.running
    /\ Top.phase = "typed"
    /\ Top.idx > Len(Top.tsnap)
    /\ stack' = SetTop([Top EXCEPT
           !.phase = "wild",
           !.wsnap = Snapshot(maps[allOf[Top.em]], WILDCARD),
           !.idx = 1,
           !.wild0 = Current(Top.em, WILDCARD)])
    /\ last' = NoEmit
    /\ UNCHANGED <<maps, allOf, given, unsub>>

\* The wildcard pass is over: emit returns.
EmitReturn ==
    /\ stack # <<>>
    /\ ~Top.running
    /\ Top.phase = "wild"
    /\ Top.idx > Len(Top.wsnap)
    /\ stack' = Pop
    /\ last' = [outcome |-> "returned", frame |-> Top, depth |-> Len(stack), maps |-> maps]
    /\ UNCHANGED <<maps, allOf, given, unsub>>

\* The caller, who holds the Map it gave to mitt (and can reach any
\* emitter's Map as emitter.all), sets an entry of it itself.
ExternalSet(m, t, arr) ==
    /\ stack = <<>>
    /\ m \in DOMAIN maps
    /\ Fits(MapSet(maps[m], t, arr))
    /\ maps' = [maps EXCEPT ![m] = MapSet(@, t, arr)]
    /\ last' = NoEmit
    /\ UNCHANGED <<allOf, given, stack, unsub>>

\* The caller deletes an entry of a Map itself.
ExternalDelete(m, t) ==
    /\ stack = <<>>
    /\ m \in DOMAIN maps
    /\ t \in DOMAIN maps[m]
    /\ maps' = [maps EXCEPT ![m] = MapDelete(@, t)]
    /\ last' = NoEmit
    /\ UNCHANGED <<allOf, given, stack, unsub>>

\* ----------------------------------------------------------- specification
\* One emitter made by mitt(): all = new Map().
Init ==
    /\ LET m == mitt(<<>>, NoMap)
       IN  maps = m.maps /\ allOf = <<m.all>>
    /\ given = <<NoMap>>
    /\ stack = <<>>
    /\ unsub = NoUnsub
    /\ last = NoEmit
    /\ op = NoOp

\* History of a registry call by emitter e: what was called and the registry
\* it found.
Called(name, e, ts, h) ==
    [name |-> name, em |-> e, types |-> ts, h |-> h, before |-> maps[allOf[e]],
     again |-> (name = "unsub" /\ unsub.called)]

\* Dispatch: on/off from the top level and from running handlers, emit from
\* the top level, handlers that return or throw.  One caller-defined type
\* and the wildcard; the functions on() returns are dropped.
DispatchTypes == {"a", WILDCARD}

Next ==
    \/ \E e \in Emitters, t \in DispatchTypes, h \in Handlers :
          On(e, t, h, FALSE) /\ op' = NoOp
    \/ \E e \in Emitters, t \in DispatchTypes, h \in Handlers \cup {NoHandler} :
          Off(e, t, h) /\ op' = NoOp
    \/ \E e \in Emitters, t \in DispatchTypes, v \in Payloads :
          stack = <<>> /\ Emit(e, t, v) /\ op' = NoOp
    \/ Invoke /\ op' = NoOp
    \/ HandlerReturn /\ op' = NoOp
    \/ HandlerThrow /\ op' = NoOp
    \/ StartWildcard /\ op' = NoOp
    \/ EmitReturn /\ op' = NoOp

Spec == Init /\ [][Next]_vars

\* emit is a synchronous call that JavaScript runs to completion: an emit
\* call in progress goes on to its next step, and a running handler, which
\* calls on/off and never emit, comes to return or throw.
EmitStep ==
    (Invoke \/ HandlerReturn \/ HandlerThrow \/ StartWildcard \/ EmitReturn) /\ op' = NoOp

SpecTerminating == Spec /\ WF_vars(EmitStep)

\* Registration: every form of on/off and the function on() returns, called
\* from the top level over all the types, with a record of each call; emit
\* with handlers that only return.
NextApi ==
    \/ \E e \in Emitters, t \in Types, h \in Handlers, keep \in BOOLEAN :
          stack = <<>> /\ On(e, t, h, keep) /\ op' = Called("on", e, <<t>>, h)
    \/ \E e \in Emitters, ts \in TypeLists, h \in Handlers, keep \in BOOLEAN :
          stack = <<>> /\ OnArray(e, ts, h, keep) /\ op' = Called("onArray", e, ts, h)
    \/ \E e \in Emitters, t \in Types, h \in Handlers \cup {NoHandler} :
          stack = <<>> /\ Off(e, t, h) /\ op' = Called("off", e, <<t>>, h)
    \/ stack = <<>> /\ Unsubscribe /\ op' = Called("unsub", unsub.em, unsub.types, unsub.h)
    \/ \E e \in Emitters, t \in Types, v \in Payloads :
          stack = <<>> /\ Emit(e, t, v) /\ op' = NoOp
    \/ Invoke /\ op' = NoOp
    \/ HandlerReturn /\ op' = NoOp
    \/ StartWildcard /\ op' = NoOp
    \/ EmitReturn /\ op' = NoOp

SpecApi == Init /\ [][NextApi]_vars

\* Handler arrays of up to n handlers.
Arrays(n) == UNION {[1..k -> Handlers] : k \in 0..n}

\* The Maps a caller fills before it calls mitt(all).
Seeds ==
    {reg \in UNION {[K -> Arrays(MaxSeed)] : K \in SUBSET Types} :
        Total(reg, DOMAIN reg) <= MaxSeed}

\* Seeded: one emitter made by mitt(all) over a Map the caller has filled,
\* then on and off from the top level, with a record of each call.
InitSeeded ==
    /\ \E seed \in Seeds :
          LET m == mitt(<<seed>>, 1)
          IN  maps = m.maps /\ allOf = <<m.all>>
    /\ given = <<1>>
    /\ stack = <<>>
    /\ unsub = NoUnsub
    /\ last = NoEmit
    /\ op = NoOp

NextSeeded ==
    \/ \E e \in Emitters, t \in Types, h \in Handlers :
          On(e, t, h, FALSE) /\ op' = Called("on", e, <<t>>, h)
    \/ \E e \in Emitters, t \in Types, h \in Handlers \cup {NoHandler} :
          Off(e, t, h) /\ op' = Called("off", e, <<t>>, h)

SpecSeeded == InitSeeded /\ [][NextSeeded]_vars

\* Shared: the caller fills a Map and makes two emitters over it, each by
\* mitt(all).  The caller then uses both emitters and changes the Map
\* directly.
SharedSeeds == {reg \in Seeds : Fits(reg)}

InitShared ==
    /\ \E seed \in SharedSeeds :
          LET m1 == mitt(<<seed>>, 1)
              m2 == mitt(m1.maps, 1)
          IN  /\ maps = m2.maps
              /\ allOf = <<m1.all, m2.all>>
    /\ given = <<1, 1>>
    /\ stack = <<>>
    /\ unsub = NoUnsub
    /\ last = NoEmit
    /\ op = NoOp

\* The handlers all the Maps of a heap hold together stay within the bound.
RECURSIVE HeapTotal(_)
HeapTotal(heap) ==
    IF heap = <<>> THEN 0
    ELSE Total(Head(heap), DOMAIN Head(heap)) + HeapTotal(Tail(heap))

NextShared ==
    \/ \E e \in Emitters, t \in Types, h \in Handlers :
          /\ stack = <<>>
          /\ On(e, t, h, FALSE)
          /\ HeapTotal(maps') <= MaxLen
          /\ op' = Called("on", e, <<t>>, h)
    \/ \E e \in Emitters, t \in Types, h \in Handlers \cup {NoHandler} :
          stack = <<>> /\ Off(e, t, h) /\ op' = Called("off", e, <<t>>, h)
    \/ \E m \in DOMAIN maps, t \in Types, arr \in Arrays(MaxLen) :
          ExternalSet(m, t, arr) /\ HeapTotal(maps') <= MaxLen /\ op' = NoOp
    \/ \E m \in DOMAIN maps, t \in Types :
          ExternalDelete(m, t) /\ op' = NoOp
    \/ \E e \in Emitters, t \in Types, v \in Payloads :
          stack = <<>> /\ Emit(e, t, v) /\ UNCHANGED op
    \/ Invoke /\ UNCHANGED op
    \/ HandlerReturn /\ UNCHANGED op
    \/ StartWildcard /\ UNCHANGED op
    \/ EmitReturn /\ UNCHANGED op

SpecShared == InitShared /\ [][NextShared]_vars

\* Removal during dispatch: on from the top level, where the caller keeps or
\* drops the function on() returns; off(type, h), off(type) and the kept
\* function from the top level and from running handlers; emit from the
\* top level.  One caller-defined type; the record of the last registry
\* call stays while emit runs.
RemovalTypes == {"a"}

NextRemoval ==
    \/ \E e \in Emitters, t \in RemovalTypes, h \in Handlers, keep \in BOOLEAN :
          stack = <<>> /\ On(e, t, h, keep) /\ op' = Called("on", e, <<t>>, h)
    \/ \E e \in Emitters, t \in RemovalTypes, h \in Handlers \cup {NoHandler} :
          Off(e, t, h) /\ op' = Called("off", e, <<t>>, h)
    \/ Unsubscribe /\ op' = Called("unsub", unsub.em, unsub.types, unsub.h)
    \/ \E e \in Emitters, t \in RemovalTypes, v \in Payloads :
          stack = <<>> /\ Emit(e, t, v) /\ UNCHANGED op
    \/ Invoke /\ UNCHANGED op
    \/ HandlerReturn /\ UNCHANGED op
    \/ StartWildcard /\ UNCHANGED op
    \/ EmitReturn /\ UNCHANGED op

SpecRemoval == Init /\ [][NextRemoval]_vars

\* Reentrancy: on from the top level; off and emit from the top level and
\* from running handlers, so that emit calls nest up to MaxDepth and find
\* what the handlers before them have left; handlers return.
NestedPayloads == {"v1"}

NextNested ==
    \/ \E e \in Emitters, t \in DispatchTypes, h \in Handlers :
          stack = <<>> /\ On(e, t, h, FALSE) /\ op' = NoOp
    \/ \E e \in Emitters, t \in DispatchTypes, h \in Handlers \cup {NoHandler} :
          Off(e, t, h) /\ op' = NoOp
    \/ \E e \in Emitters, t \in DispatchTypes, v \in NestedPayloads :
          Emit(e, t, v) /\ op' = NoOp
    \/ Invoke /\ op' = NoOp
    \/ HandlerReturn /\ op' = NoOp
    \/ StartWildcard /\ op' = NoOp
    \/ EmitReturn /\ op' = NoOp

SpecNested == Init /\ [][NextNested]_vars

\* Wildcard registration during dispatch: on and off from the top level
\* and from running handlers, emit from the top level.  While an emit call
\* is in progress, and until the next call from the top level, the record
\* is of that emit call and the registry it found.
NextWildcard ==
    \/ \E e \in Emitters, t \in DispatchTypes, h \in Handlers :
          On(e, t, h, FALSE) /\ (IF stack = <<>> THEN op' = NoOp ELSE UNCHANGED op)
    \/ \E e \in Emitters, t \in DispatchTypes, h \in Handlers \cup {NoHandler} :
          Off(e, t, h) /\ (IF stack = <<>> THEN op' = NoOp ELSE UNCHANGED op)
    \/ \E e \in Emitters, t \in DispatchTypes, v \in NestedPayloads :
          stack = <<>> /\ Emit(e, t, v) /\ op' = Called("emit", e, <<t>>, NoHandler)
    \/ Invoke /\ UNCHANGED op
    \/ HandlerReturn /\ UNCHANGED op
    \/ StartWildcard /\ UNCHANGED op
    \/ EmitReturn /\ UNCHANGED op

SpecWildcard == Init /\ [][NextWildcard]_vars

\* ------------------------------------------------------------------ claims
Reg(e) == maps[allOf[e]]

\* The array a registry holds for t, empty when it holds none.
ArrayOf(reg, t) == IF t \in DOMAIN reg THEN reg[t] ELSE <<>>

IsPrefix(s, t) == Len(s) <= Len(t) /\ \A i \in 1..Len(s) : s[i] = t[i]

HandlersOf(cs) == [i \in 1..Len(cs) |-> cs[i].h]

PassCalls(f, p) == LET InPass(c) == c.pass = p IN SelectSeq(f.calls, InPass)
TypedCalls(f) == PassCalls(f, "typed")
WildCalls(f) == PassCalls(f, "wild")

\* The emit calls in sight: those in progress and the one that just ended.
Frames ==
    {stack[i] : i \in DOMAIN stack} \cup (IF last.outcome = "none" THEN {} ELSE {last.frame})

\* f is the frame of the emit call that has just returned to its caller.
Returned(f) == last.outcome = "returned" /\ last.frame = f

\* The invocations emit made of handlers taken from the array of its own
\* type: the type-matched pass, and for emit('*') the wildcard pass too.
FromOwnArray(f) ==
    LET Own(c) == c.pass = "typed" \/ f.type = WILDCARD IN SelectSeq(f.calls, Own)

\* on(type, h) has put h at the end of the type's array.
OnAppends ==
    op.name = "on" =>
        ArrayOf(Reg(op.em), op.types[1]) = Append(ArrayOf(op.before, op.types[1]), op.h)

\* emit has invoked the handlers of its type's array as it stood at the
\* call, front to back with the payload alone, and all of them once it
\* has returned.
InArrayOrder(f) ==
    LET cs == FromOwnArray(f)
    IN  /\ IsPrefix(HandlersOf(cs), f.seq0)
        /\ \A i \in 1..Len(cs) : cs[i].args = <<f.evt>>
        /\ (Returned(f) => HandlersOf(cs) = f.seq0)

\* C1 as amended: for every caller-defined type t, emit(t, v) invokes the
\* handlers that t's array holds when emit is called once per occurrence, in
\* registration order (on appends at the end), each with the payload v.
C1_RegistrationOrder ==
    OnAppends /\ \A f \in Frames : f.type \in UserTypes => InArrayOrder(f)

\* C1 as claimed: the same for every event type, the wildcard '*' included.
C1_EveryType ==
    OnAppends /\ \A f \in Frames : InArrayOrder(f)

\* An emit of a caller-defined type has returned after invoking two
\* different handlers in the order they were registered in.
C1_Witness ==
    /\ last.outcome = "returned"
    /\ last.frame.type \in UserTypes
    /\ Len(last.frame.seq0) = 2
    /\ last.frame.seq0[1] # last.frame.seq0[2]
    /\ HandlersOf(TypedCalls(last.frame)) = last.frame.seq0

\* C2: in one emit of a caller-defined type every type-matched invocation
\* comes before every wildcard invocation, and the wildcard handlers (the
\* '*' array as the wildcard pass finds it) are invoked in order with the
\* arguments (type, payload).
C2_TypedBeforeWildcard ==
    \A f \in Frames : f.type \in UserTypes =>
        LET n == Len(TypedCalls(f))
            ws == WildCalls(f)
        IN  /\ \A i \in 1..Len(f.calls) :
                  f.calls[i].pass = (IF i <= n THEN "typed" ELSE "wild")
            /\ (ws # <<>> => HandlersOf(TypedCalls(f)) = f.seq0)
            /\ IsPrefix(HandlersOf(ws), f.wild0)
            /\ \A i \in 1..Len(ws) : ws[i].args = <<f.type, f.evt>>
            /\ (Returned(f) => HandlersOf(ws) = f.wild0)

\* An emit of a caller-defined type has returned after invoking a typed
\* handler and then a wildcard handler.
C2_Witness ==
    /\ last.outcome = "returned"
    /\ last.frame.type \in UserTypes
    /\ TypedCalls(last.frame) # <<>>
    /\ WildCalls(last.frame) # <<>>

\* The registry's array for the frame's type is the array emit found plus
\* handlers that on() appended since.
GrewSince(f) ==
    LET cur == ArrayOf(Reg(f.em), f.type)
    IN  Len(cur) > Len(f.seq0) /\ IsPrefix(f.seq0, cur)

\* The frame is an emit call that has just been entered.
Fresh(f) == f.phase = "typed" /\ f.idx = 1 /\ ~f.running

\* C3: a handler that on() adds to type t while emit(t, v) runs its
\* type-matched pass is not invoked by that pass, which invokes the
\* handlers of the array as emit found it; an emit call made afterwards
\* walks the array as it then is, the added handler included.
C3_SnapshotOnAdd ==
    \A i \in DOMAIN stack :
        LET f == stack[i]
        IN  /\ (GrewSince(f) => IsPrefix(HandlersOf(TypedCalls(f)), f.seq0))
            /\ (Fresh(f) => f.tsnap = ArrayOf(Reg(f.em), f.type))

\* A type-matched pass is over in which a handler was added to the type:
\* the pass invoked the handlers emit found and not the added one.
C3_Witness ==
    /\ stack # <<>>
    /\ Top.phase = "wild"
    /\ Top.seq0 # <<>>
    /\ GrewSince(Top)
    /\ HandlersOf(TypedCalls(Top)) = Top.seq0

\* How often h occurs in s.
Count(s, h) == Cardinality({i \in 1..Len(s) : s[i] = h})

\* s without its first h.
WithoutFirst(s, h) ==
    IF Count(s, h) = 0 THEN s
    ELSE LET at == CHOOSE i \in 1..Len(s) : s[i] = h /\ \A j \in 1..(i - 1) : s[j] # h
         IN  [k \in 1..(Len(s) - 1) |-> IF k < at THEN s[k] ELSE s[k + 1]]

\* The registry holds for every type but t what it held before the call.
OthersAsBefore(t) ==
    /\ DOMAIN Reg(op.em) \ {t} = DOMAIN op.before \ {t}
    /\ \A k \in DOMAIN op.before \ {t} : Reg(op.em)[k] = op.before[k]

\* C4 as claimed: the first call of the function on() returned removes h,
\* and every later call of it leaves the registry as it was, whatever the
\* registry holds (h may be registered more than once).
C4_UnsubscribeIdempotent ==
    op.name = "unsub" =>
        /\ \A i \in DOMAIN op.types :
              (~op.again /\ Count(ArrayOf(op.before, op.types[i]), op.h) > 0) =>
                  Count(ArrayOf(Reg(op.em), op.types[i]), op.h)
                      < Count(ArrayOf(op.before, op.types[i]), op.h)
        /\ (op.again => Reg(op.em) = op.before)

\* C5: off(type, h) with h in the type's array removes the first h and no
\* other entry: the rest keep their order, one occurrence fewer remains,
\* and the other types are untouched.
C5_TargetedRemoval ==
    (/\ op.name = "off"
     /\ op.h # NoHandler
     /\ Count(ArrayOf(op.before, op.types[1]), op.h) > 0) =>
        LET t == op.types[1]
        IN  /\ t \in DOMAIN Reg(op.em)
            /\ Reg(op.em)[t] = WithoutFirst(op.before[t], op.h)
            /\ Count(Reg(op.em)[t], op.h) = Count(op.before[t], op.h) - 1
            /\ OthersAsBefore(t)

\* off(type, h) has removed the first of two occurrences of h that had
\* another handler between them: the other handler now comes first.
C5_Witness ==
    /\ op.name = "off"
    /\ op.h # NoHandler
    /\ LET t == op.types[1]
       IN  /\ t \in DOMAIN op.before
           /\ Len(op.before[t]) = 3
           /\ op.before[t][1] = op.h
           /\ op.before[t][2] # op.h
           /\ op.before[t][3] = op.h
           /\ Reg(op.em)[t] = <<op.before[t][2], op.h>>

\* C6: off(type) on a caller-defined type that has an array leaves the
\* type in the registry with an empty array; an emit of a type whose array
\* is empty invokes no typed handler and, by its return, every wildcard
\* handler registered.
C6_ClearAll ==
    /\ (/\ op.name = "off"
         /\ op.h = NoHandler
         /\ op.types[1] \in UserTypes
         /\ op.types[1] \in DOMAIN op.before) =>
            /\ op.types[1] \in DOMAIN Reg(op.em)
            /\ Reg(op.em)[op.types[1]] = <<>>
            /\ OthersAsBefore(op.types[1])
    /\ \A f \in Frames :
          (f.type \in UserTypes /\ f.seq0 = <<>>) =>
              /\ TypedCalls(f) = <<>>
              /\ (Returned(f) =>
                     HandlersOf(WildCalls(f)) = ArrayOf(Reg(f.em), WILDCARD))

\* An emit of a caller-defined type that is in the registry with an empty
\* array has returned: it invoked a wildcard handler and nothing else.
C6_Witness ==
    /\ last.outcome = "returned"
    /\ last.frame.type \in UserTypes
    /\ last.frame.type \in DOMAIN Reg(last.frame.em)
    /\ Reg(last.frame.em)[last.frame.type] = <<>>
    /\ TypedCalls(last.frame) = <<>>
    /\ WildCalls(last.frame) # <<>>

\* How often t is listed in the array of types ts.
Listed(ts, t) == Cardinality({i \in DOMAIN ts : ts[i] = t})

\* s followed by n times h.
RECURSIVE Appended(_, _, _)
Appended(s, h, n) == IF n = 0 THEN s ELSE Appended(Append(s, h), h, n - 1)

\* C7: on(types, h) appends h to the array of every type listed; an emit
\* of a type invokes every handler its array holds, so h for each listed
\* type; the function on(types, h) returned removes one h from the array of
\* every listed type.
C7_MultiType ==
    /\ op.name = "onArray" =>
          \A t \in Types :
              ArrayOf(Reg(op.em), t) = Appended(ArrayOf(op.before, t), op.h, Listed(op.types, t))
    /\ \A f \in Frames :
          Returned(f) =>
              \A h \in Handlers :
                  Count(HandlersOf(TypedCalls(f)), h) = Count(ArrayOf(Reg(f.em), f.type), h)
    /\ (op.name = "unsub" /\ Len(op.types) = 2 /\ op.types[1] # op.types[2]) =>
          \A i \in 1..2 :
              ArrayOf(Reg(op.em), op.types[i]) = WithoutFirst(ArrayOf(op.before, op.types[i]), op.h)

\* The function on([a, b], h) returned has been called and has removed h
\* from both a and b.
C7_Witness ==
    /\ op.name = "unsub"
    /\ ~op.again
    /\ op.types = <<"a", "b">>
    /\ ArrayOf(op.before, "a") = <<op.h>>
    /\ ArrayOf(op.before, "b") = <<op.h>>
    /\ Reg(op.em)["a"] = <<>>
    /\ Reg(op.em)["b"] = <<>>

\* C8: when a handler throws, the emit call is over and the error is with
\* its caller: the handlers before the thrower have run, none after it in
\* the pass has, no wildcard handler has if the typed pass was running,
\* and the registry is as the handlers left it.
C8_FailFast ==
    last.outcome = "threw" =>
        LET f == last.frame
            cs == PassCalls(f, f.phase)
        IN  /\ Len(stack) = last.depth - 1
            /\ HandlersOf(cs) = SubSeq(Snap(f), 1, f.idx)
            /\ f.calls[Len(f.calls)] = cs[Len(cs)]
            /\ (f.phase = "typed" => WildCalls(f) = <<>>)
            /\ maps = last.maps

\* The first typed handler has thrown while a wildcard handler was
\* registered: no wildcard handler was invoked.
C8_Witness ==
    /\ last.outcome = "threw"
    /\ last.frame.phase = "typed"
    /\ last.frame.idx = 1
    /\ ArrayOf(Reg(last.frame.em), WILDCARD) # <<>>
    /\ stack = <<>>

\* C9: off on a type the registry has no entry for (with or without a
\* handler), and off(type, h) with h not in the type's array, leave the
\* registry as it was, its set of types included.
C9_OffMiss ==
    (/\ op.name = "off"
     /\ \/ op.types[1] \notin DOMAIN op.before
        \/ (op.h # NoHandler /\ Count(op.before[op.types[1]], op.h) = 0)) =>
        Reg(op.em) = op.before

\* off(type, h) has been called for a type whose array holds other
\* handlers and not h.
C9_Witness ==
    /\ op.name = "off"
    /\ op.h # NoHandler
    /\ op.types[1] \in DOMAIN op.before
    /\ Len(op.before[op.types[1]]) >= 2
    /\ Count(op.before[op.types[1]], op.h) = 0
    /\ Reg(op.em) = op.before

\* C10: an emitter made by mitt(all) works on the Map it was given: emit
\* walks the arrays that Map holds when emit is called, whoever put them
\* there, and on/off through the emitter show in that Map.
C10_SharedRegistry ==
    \A e \in Emitters : given[e] # NoMap =>
        /\ \A i \in DOMAIN stack :
              (stack[i].em = e /\ Fresh(stack[i])) =>
                  stack[i].tsnap = ArrayOf(maps[given[e]], stack[i].type)
        /\ \A f \in Frames :
              (f.em = e /\ Returned(f)) =>
                  /\ HandlersOf(TypedCalls(f)) = ArrayOf(maps[given[e]], f.type)
                  /\ HandlersOf(WildCalls(f)) = ArrayOf(maps[given[e]], WILDCARD)
        /\ (op.name = "on" /\ op.em = e) =>
              ArrayOf(maps[given[e]], op.types[1])
                  = Append(ArrayOf(op.before, op.types[1]), op.h)
        /\ (op.name = "off" /\ op.em = e /\ op.h = NoHandler
              /\ op.types[1] \in DOMAIN op.before) =>
              ArrayOf(maps[given[e]], op.types[1]) = <<>>

\* Two emitters were made over one Map; a handler registered through the
\* first has been invoked by an emit of the second.
C10_Witness ==
    /\ given = <<1, 1>>
    /\ op.name = "on"
    /\ op.em = 1
    /\ last.outcome = "returned"
    /\ last.frame.em = 2
    /\ last.frame.type = op.types[1]
    /\ Count(ArrayOf(op.before, op.types[1]), op.h) = 0
    /\ Count(HandlersOf(TypedCalls(last.frame)), op.h) = 1

\* The frame invokes nothing, has invoked nothing, and its current pass is
\* at its end: the next step of emit is the wildcard lookup or the return.
Idle(f) == f.calls = <<>> /\ ~f.running /\ f.idx > Len(Snap(f))

\* C11: no step of emit (its entry, an invocation, a handler's return, the
\* wildcard lookup, its return) changes a registry, so with handlers that
\* call neither on nor off the registry after emit is the registry before
\* it and no type is added; and an emit that finds neither handlers of its
\* type nor wildcard handlers invokes nothing and goes on to its return.
C11_EmitLeavesRegistry ==
    /\ [](\A i \in DOMAIN stack :
            (stack[i].seq0 = <<>> /\ ArrayOf(Reg(stack[i].em), WILDCARD) = <<>>) =>
                Idle(stack[i]))
    /\ []((last.outcome = "returned" /\ last.frame.seq0 = <<>> /\ last.frame.wild0 = <<>>) =>
            last.frame.calls = <<>>)
    /\ [][(stack' # stack) => (maps' = maps)]_vars

\* An emit of a type the registry has no entry for, with no wildcard
\* handler registered, has returned: nothing was invoked and the registry
\* still has no entry for the type.
C11_Witness ==
    /\ last.outcome = "returned"
    /\ last.frame.calls = <<>>
    /\ last.frame.type \notin DOMAIN Reg(last.frame.em)
    /\ WILDCARD \notin DOMAIN Reg(last.frame.em)
    /\ DOMAIN Reg(last.frame.em) # {}

\* A handler is running in the frame's type-matched pass, or the pass is
\* over, and the registry's array for the type no longer holds h.
GoneSince(f, h) ==
    /\ Count(f.seq0, h) > 0
    /\ Count(ArrayOf(Reg(f.em), f.type), h) = 0

\* C12: whatever off(t, h2), off(t) or the function on() returned remove
\* from type t while emit(t, v) runs its type-matched pass, the pass walks
\* the array as emit found it: its invocations follow that array position
\* by position and are all of it once the pass is over, a removed handler
\* included.  An emit call made afterwards finds the array without it.
C12_SnapshotOnRemove ==
    \A i \in DOMAIN stack :
        LET f == stack[i]
            cs == HandlersOf(TypedCalls(f))
        IN  /\ (f.phase = "typed" => Snap(f) = f.seq0)
            /\ \A k \in 1..Len(cs) : k <= Len(f.seq0) /\ cs[k] = f.seq0[k]
            /\ (f.phase = "wild" => cs = f.seq0)
            /\ (Fresh(f) => f.tsnap = ArrayOf(Reg(f.em), f.type))

\* The first handler of a type-matched pass over two handlers has called
\* the function on() returned for the second; the second was invoked all
\* the same, and the pass is over with the registry no longer holding it.
C12_Witness ==
    /\ stack # <<>>
    /\ Top.phase = "wild"
    /\ Len(Top.seq0) = 2
    /\ Top.seq0[1] # Top.seq0[2]
    /\ op.name = "unsub"
    /\ op.h = Top.seq0[2]
    /\ ArrayOf(op.before, Top.type) = Top.seq0
    /\ GoneSince(Top, Top.seq0[2])
    /\ HandlersOf(TypedCalls(Top)) = Top.seq0

\* The invocations the frame has made are the handlers of the array emit
\* found for its type and then of the '*' array its wildcard pass found,
\* in order and up to the position the frame is at.
WalksOwnSnapshots(f) ==
    /\ IsPrefix(HandlersOf(f.calls), f.seq0 \o f.wild0)
    /\ Len(f.calls) = (IF f.phase = "typed" THEN 0 ELSE Len(f.seq0))
                          + f.idx - (IF f.running THEN 0 ELSE 1)

\* C13: an emit call made by a handler copies the array as it stands at
\* that moment; while it is in progress every emit call around it stays
\* inside the handler invocation that made the call; it returns to that
\* handler, and to no one else, after invoking all its type-matched and all
\* its wildcard handlers; and every emit call, nested or resumed, invokes
\* the handlers of its own copies in order, none skipped and none twice.
C13_NestedEmit ==
    /\ \A i \in DOMAIN stack :
          /\ (i < Len(stack) => stack[i].running)
          /\ (Fresh(stack[i]) =>
                 stack[i].tsnap = ArrayOf(Reg(stack[i].em), stack[i].type))
          /\ WalksOwnSnapshots(stack[i])
    /\ last.outcome = "returned" =>
          /\ Len(stack) = last.depth - 1
          /\ (stack # <<>> => Top.running)
          /\ HandlersOf(last.frame.calls) = last.frame.seq0 \o last.frame.wild0

\* The first of two handlers of an emit has removed itself and then called
\* emit for the same type: the nested call has invoked the handler that was
\* left and has returned, and the outer call is still in its first handler
\* with the second to come.
C13_Witness ==
    /\ last.outcome = "returned"
    /\ last.depth = 2
    /\ Len(stack) = 1
    /\ Top.running
    /\ Top.phase = "typed"
    /\ Top.idx = 1
    /\ Len(Top.seq0) = 2
    /\ last.frame.type = Top.type
    /\ last.frame.seq0 = <<Top.seq0[2]>>
    /\ HandlersOf(last.frame.calls) = <<Top.seq0[2]>>

\* C14: with handlers that call on/off and never emit, an emit call makes
\* at most as many type-matched invocations as its type's array held when
\* the call began and at most as many wildcard invocations as the '*' array
\* held when the wildcard pass began, however the handlers change the
\* arrays meanwhile; and every emit call comes to an end.
C14_EmitTerminates ==
    /\ [](\A f \in Frames :
            /\ Len(TypedCalls(f)) <= Len(f.seq0)
            /\ Len(WildCalls(f)) <= Len(f.wild0)
            /\ Len(f.calls) <= Len(f.seq0) + Len(f.wild0))
    /\ ((stack # <<>>) ~> (stack = <<>>))

\* An emit call has returned after as many invocations as the arrays held
\* when its passes began, although a handler added another handler to the
\* emitted type while it ran.
C14_Witness ==
    /\ last.outcome = "returned"
    /\ last.frame.seq0 # <<>>
    /\ Len(last.frame.calls) = Len(last.frame.seq0) + Len(last.frame.wild0)
    /\ Len(ArrayOf(Reg(last.frame.em), last.frame.type)) > Len(last.frame.seq0)

\* s without its first n occurrences of h (without all of them when it has
\* fewer).
RECURSIVE WithoutFirstN(_, _, _)
WithoutFirstN(s, h, n) == IF n = 0 THEN s ELSE WithoutFirstN(WithoutFirst(s, h), h, n - 1)

\* The registry that calling off(t, h) for each t of ts, in order, makes
\* of reg.
RECURSIVE OffForEach(_, _, _)
OffForEach(reg, ts, h) ==
    IF ts = <<>> THEN reg ELSE OffForEach(off(reg, Head(ts), h), Tail(ts), h)

\* C15: a call of the function on(type, h) or on(types, h) returned does
\* to the registry it finds what off(t, h) for each listed t does: for each
\* listing of t the first h in t's array goes, whichever on call put it
\* there and whether or not the function was called before; the other
\* entries keep their order; a type without an entry gets none and an array
\* without h stays as it is.
C15_UnsubscribeIsOff ==
    op.name = "unsub" =>
        /\ Reg(op.em) = OffForEach(op.before, op.types, op.h)
        /\ DOMAIN Reg(op.em) = DOMAIN op.before
        /\ \A t \in DOMAIN op.before :
              Reg(op.em)[t] = WithoutFirstN(op.before[t], op.h, Listed(op.types, t))

\* The function on() returned is called a second time while the type's
\* array holds one more h, put there by another on call: that h is removed.
C15_Witness ==
    /\ op.name = "unsub"
    /\ op.again
    /\ Len(op.types) = 1
    /\ ArrayOf(op.before, op.types[1]) = <<op.h>>
    /\ Reg(op.em)[op.types[1]] = <<>>

\* The types an array of types lists.
ListedTypes(ts) == {ts[i] : i \in DOMAIN ts}

\* C16: on(type, h) and on(types, h) put h at the end of the array of each
\* type listed, once per listing, and make the array when the registry has
\* none; what the arrays held stays in place in front of it, h is added
\* even if the array holds it already, and a type that is not listed keeps
\* its array or stays without one (so on([], h) changes nothing).
C16_OnAppends ==
    (op.name = "on" \/ op.name = "onArray") =>
        /\ DOMAIN Reg(op.em) = DOMAIN op.before \cup ListedTypes(op.types)
        /\ \A t \in ListedTypes(op.types) :
              /\ IsPrefix(ArrayOf(op.before, t), Reg(op.em)[t])
              /\ Reg(op.em)[t] = Appended(ArrayOf(op.before, t), op.h, Listed(op.types, t))
              /\ Count(Reg(op.em)[t], op.h)
                    = Count(ArrayOf(op.before, t), op.h) + Listed(op.types, t)
        /\ \A t \in DOMAIN op.before \ ListedTypes(op.types) :
              Reg(op.em)[t] = op.before[t]
        /\ (op.types = <<>> => Reg(op.em) = op.before)

\* on(type, h) has been called for a type whose array held another
\* handler: h is in the array after it.
C16_Witness ==
    /\ op.name = "on"
    /\ op.types[1] \in DOMAIN op.before
    /\ Len(op.before[op.types[1]]) = 1
    /\ op.before[op.types[1]][1] # op.h
    /\ Reg(op.em)[op.types[1]] = <<op.before[op.types[1]][1], op.h>>

\* The frame's wildcard pass has just begun: no wildcard handler has been
\* invoked yet.
WildcardFresh(f) == f.phase = "wild" /\ f.idx = 1 /\ ~f.running

\* C17: no wildcard handler is invoked before the type-matched pass is
\* over; the wildcard pass walks the '*' array as it stands when that pass
\* begins, so with what the type-matched handlers added to it and without
\* what they removed from it, and goes on walking that array, invoking all
\* of it by the time emit returns, whatever the wildcard handlers do to
\* '*' meanwhile.
C17_WildcardSnapshot ==
    /\ \A i \in DOMAIN stack :
          WildcardFresh(stack[i]) =>
              stack[i].wsnap = ArrayOf(Reg(stack[i].em), WILDCARD)
    /\ \A f \in Frames :
          /\ (f.phase = "typed" => WildCalls(f) = <<>>)
          /\ (f.phase = "wild" =>
                 /\ Snap(f) = f.wild0
                 /\ IsPrefix(HandlersOf(WildCalls(f)), f.wild0))
          /\ (Returned(f) => HandlersOf(WildCalls(f)) = f.wild0)

\* An emit of a caller-defined type has returned: no wildcard handler was
\* registered when it was called, a type-matched handler registered one,
\* and the wildcard pass invoked it.
C17_Witness ==
    /\ last.outcome = "returned"
    /\ op.name = "emit"
    /\ last.frame.type \in UserTypes
    /\ ArrayOf(op.before, WILDCARD) = <<>>
    /\ TypedCalls(last.frame) # <<>>
    /\ Len(WildCalls(last.frame)) = 1

\* The invocations of one pass over the array s, each with the arguments as.
Invocations(s, p, as) == [i \in 1..Len(s) |-> [h |-> s[i], pass |-> p, args |-> as]]

\* C18: with handlers that leave the registry alone, a completed
\* emit('*', v) has invoked the handlers of the '*' array in order with (v)
\* and then again in order with ('*', v), so each of them twice; a
\* completed emit of any other type has invoked each entry of the '*'
\* array once, in its wildcard pass, with (type, v).
C18_WildcardTwice ==
    \A f \in Frames :
        Returned(f) =>
            LET ws == ArrayOf(Reg(f.em), WILDCARD)
            IN  /\ (f.type = WILDCARD =>
                       /\ f.calls = Invocations(ws, "typed", <<f.evt>>)
                                       \o Invocations(ws, "wild", <<WILDCARD, f.evt>>)
                       /\ \A h \in Handlers :
                             Count(HandlersOf(f.calls), h) = 2 * Count(ws, h))
                /\ (f.type # WILDCARD =>
                       /\ WildCalls(f) = Invocations(ws, "wild", <<f.type, f.evt>>)
                       /\ \A h \in Handlers :
                             Count(HandlersOf(WildCalls(f)), h) = Count(ws, h))

\* emit('*', v) has returned with two different handlers registered under
\* '*': four invocations were made.
C18_Witness ==
    /\ last.outcome = "returned"
    /\ last.frame.type = WILDCARD
    /\ Len(last.frame.seq0) = 2
    /\ last.frame.seq0[1] # last.frame.seq0[2]
    /\ Len(last.frame.calls) = 4
    /\ last.frame.calls[1].args = <<last.frame.evt>>
    /\ last.frame.calls[3].args = <<WILDCARD, last.frame.evt>>

\* C19: under on, off, the functions on() returns and emit, a type the
\* registry has an entry for keeps its entry: off(type) and an
\* off(type, h) that removes the last handler leave the type with an empty
\* array.  A step that gives the registry a new entry is a call of on, and
\* the new entries are for types that call lists; off, the functions on()
\* returns and emit add none.
C19_KeysOnlyGrow ==
    /\ []((op.name = "off" /\ op.types[1] \in DOMAIN op.before
             /\ (op.h = NoHandler \/ op.before[op.types[1]] = <<op.h>>)) =>
            (op.types[1] \in DOMAIN Reg(op.em) /\ Reg(op.em)[op.types[1]] = <<>>))
    /\ []((op.name = "off" \/ op.name = "unsub") =>
            DOMAIN Reg(op.em) = DOMAIN op.before)
    /\ [][\A e \in Emitters :
            /\ DOMAIN maps[allOf[e]] \subseteq DOMAIN maps'[allOf'[e]]
            /\ (DOMAIN maps'[allOf'[e]] # DOMAIN maps[allOf[e]] =>
                   /\ (op'.name = "on" \/ op'.name = "onArray")
                   /\ DOMAIN maps'[allOf'[e]] \ DOMAIN maps[allOf[e]]
                         \subseteq {op'.types[i] : i \in DOMAIN op'.types})]_vars

\* off(type, h) has removed the only handler of a type: the type is still
\* in the registry, with an empty array.
C19_Witness ==
    /\ op.name = "off"
    /\ op.h # NoHandler
    /\ op.types[1] \in DOMAIN op.before
    /\ op.before[op.types[1]] = <<op.h>>
    /\ op.types[1] \in DOMAIN Reg(op.em)
    /\ Reg(op.em)[op.types[1]] = <<>>

====
